---- MODULE Spec2Model ----
(***************************************************************************)
(* A model of the CHIP-8 emulator of src/src/chip8.rs (struct Emulator and *)
(* its fetch / decode / execute cycle, the handlers exec_*, the controller *)
(* loop Emulator::run) together with the window thread of src/src/app.rs   *)
(* that feeds it key events.                                               *)
(***************************************************************************)
EXTENDS Integers, Sequences, FiniteSets, TLC

(***************************************************************************)
(* Program constants.                                                      *)
(***************************************************************************)
DISPLAY_WIDTH == 64
DISPLAY_HEIGHT == 32
FONT_PC == 80
PC_START == 512
RAM_SIZE == 4096
TARGET_FPS == 60
INITIAL_TIMER == 60
U8_MOD == 256
U16_MOD == 65536

Byte == 0 .. (U8_MOD - 1)
Word == 0 .. (U16_MOD - 1)
Nibble == 0 .. 15
FLAG == 15

(***************************************************************************)
(* Bounds of the model.                                                    *)
(***************************************************************************)
\* general registers V0..MaxRegIdx (and always VF) are used as operands
MaxRegIdx == 1
\* operand bytes 0..MaxSmallByte, 127-MaxSmallByte..128+MaxSmallByte and
\* 255-MaxSmallByte..255 are tried
MaxSmallByte == 1
\* the random source of CXNN yields the words 0..MaxRand and 65535-MaxRand..65535
MaxRand == 1
\* wall time, in sixtieths of a second, up to which the controller loop is followed
MaxNow == 121
\* key events the window thread sends in one run
MaxKeyEvents == 2
\* the configured cycle rates 1..MaxCycleRate are tried
MaxCycleRate == 2
\* RedrawRequested events the window thread gets
MaxRedraws == 2
\* sprites of 0..MaxSpriteRows rows (and of 15) are drawn
MaxSpriteRows == 2
\* how many of the last cycles hist remembers
HistLen == 4

(***************************************************************************)
(* Bit arithmetic on unsigned integers of w bits.                          *)
(***************************************************************************)
RECURSIVE BitAnd(_, _, _)
BitAnd(a, b, w) ==
    IF w = 0 THEN 0
    ELSE ((a % 2) * (b % 2)) + 2 * BitAnd(a \div 2, b \div 2, w - 1)

RECURSIVE BitOr(_, _, _)
BitOr(a, b, w) ==
    IF w = 0 THEN 0
    ELSE (IF (a % 2) + (b % 2) > 0 THEN 1 ELSE 0) + 2 * BitOr(a \div 2, b \div 2, w - 1)

RECURSIVE BitXor(_, _, _)
BitXor(a, b, w) ==
    IF w = 0 THEN 0
    ELSE (((a % 2) + (b % 2)) % 2) + 2 * BitXor(a \div 2, b \div 2, w - 1)

\* u8 >> k and u8 << k (the bits shifted out of the byte are lost)
Shr8(v, k) == v \div (2 ^ k)
Shl8(v, k) == (v * (2 ^ k)) % U8_MOD

(***************************************************************************)
(* decode_and_execute: the fields of an instruction word.                  *)
(***************************************************************************)
first_nibble(instruction) == (instruction \div 4096) % 16
field_x(instruction) == (instruction \div 256) % 16
field_y(instruction) == (instruction \div 16) % 16
field_n(instruction) == instruction % 16
field_nn(instruction) == instruction % 256
field_nnn(instruction) == instruction % 4096

nibbles(instruction) ==
    << first_nibble(instruction), field_x(instruction),
       field_y(instruction), field_n(instruction) >>

\* the wildcard _ of a match pattern
WILD == 16

\* a variant of the 8XY0 arm that lost its last nibble
arm_8xy0_loose == <<"exec_8xy0", 8, WILD, WILD, WILD>>

\* the arm (0x8, _, _, 0x0) => self.exec_8xy0(x, y)
arm_8xy0 == <<"exec_8xy0", 8, WILD, WILD, 0>>

\* the arms of the match of decode_and_execute, in the order of the source,
\* without the final `_` arm: <<handler, pattern of the four nibbles>>
MatchArms ==
    << <<"exec_00e0", 0, 0, 14, 0>>,
       <<"exec_00ee", 0, 0, 14, 14>>,
       <<"exec_1nnn", 1, WILD, WILD, WILD>>,
       <<"exec_2nnn", 2, WILD, WILD, WILD>>,
       <<"exec_3xnn", 3, WILD, WILD, WILD>>,
       <<"exec_4xnn", 4, WILD, WILD, WILD>>,
       <<"exec_5xy0", 5, WILD, WILD, 0>>,
       <<"exec_6xnn", 6, WILD, WILD, WILD>>,
       <<"exec_7xnn", 7, WILD, WILD, WILD>>,
       arm_8xy0,
       <<"exec_8xy1", 8, WILD, WILD, 1>>,
       <<"exec_8xy2", 8, WILD, WILD, 2>>,
       <<"exec_8xy3", 8, WILD, WILD, 3>>,
       <<"exec_8xy4", 8, WILD, WILD, 4>>,
       <<"exec_8xy5", 8, WILD, WILD, 5>>,
       <<"exec_8xy6", 8, WILD, WILD, 6>>,
       <<"exec_8xy7", 8, WILD, WILD, 7>>,
       <<"exec_8xye", 8, WILD, WILD, 14>>,
       <<"exec_9xy0", 9, WILD, WILD, 0>>,
       <<"exec_annn", 10, WILD, WILD, WILD>>,
       <<"exec_bnnn", 11, WILD, WILD, WILD>>,
       <<"exec_cxnn", 12, WILD, WILD, WILD>>,
       <<"exec_dxyn", 13, WILD, WILD, WILD>>,
       <<"exec_ex9e", 14, WILD, 9, 14>>,
       <<"exec_exa1", 14, WILD, 10, 1>>,
       <<"exec_fx07", 15, WILD, 0, 7>>,
       <<"exec_fx15", 15, WILD, 1, 5>>,
       <<"exec_fx18", 15, WILD, 1, 8>>,
       <<"exec_fx1e", 15, WILD, 1, 14>>,
       <<"exec_fx0a", 15, WILD, 0, 10>>,
       <<"exec_fx29", 15, WILD, 2, 9>>,
       <<"exec_fx33", 15, WILD, 3, 3>>,
       <<"exec_fx55", 15, WILD, 5, 5>>,
       <<"exec_fx65", 15, WILD, 6, 5>> >>

\* whether the tuple of nibbles nb matches the pattern of arm
ArmMatches(arm, nb) ==
    \A k \in 1 .. 4 : arm[k + 1] = WILD \/ arm[k + 1] = nb[k]

\* the arms (by position) whose pattern the instruction matches
MatchingArms(instruction) ==
    { k \in 1 .. Len(MatchArms) : ArmMatches(MatchArms[k], nibbles(instruction)) }

\* the arm the match takes: the first whose pattern matches, "unknown" (the
\* `_` arm, which reports the instruction) when none does
Dispatch(instruction) ==
    LET hit == MatchingArms(instruction)
    IN  IF hit = {} THEN "unknown"
        ELSE MatchArms[CHOOSE k \in hit : \A l \in hit : k <= l][1]

KnownHandlers == { MatchArms[k][1] : k \in 1 .. Len(MatchArms) }

(***************************************************************************)
(* The state.  The fields of struct Emulator keep their names.  memory is  *)
(* given as the cells that differ from the image construction left there   *)
(* (zeros, the font, the program rom): address |-> byte.  frame is the     *)
(* pixel buffer the two threads share, given as the set of the pixels      *)
(* (frame_x + frame_y * DISPLAY_WIDTH) whose colour bytes are not zero.    *)
(***************************************************************************)
VARIABLES
    rom,              \* the bytes load_rom copied into memory
    memory, pc, stack, index_register, var_registers,
    delay_timer, sound_timer, should_draw, cycle_rate,
    op_shift_original, op_jump_with_offset_original, op_store_and_load_original,
    pressed_keys, audio_sink_initialized,
    hash_seed,        \* the keys of the RandomState of pressed_keys
    frame,            \* the pixels of pixel_buffer that are lit
    sink_paused,      \* audio_sink: whether it is paused
    key_queue,        \* the mpsc channel of key events, oldest first
    keys_sent,        \* how many key events the window thread has sent
    panicked,         \* "none", or why the emulation thread panicked
    overflow_checks,  \* the build: whether integer overflow panics (debug) or wraps
    rpc,              \* where Emulator::run stands: "sleep" or "burst"
    now,              \* wall time since cycle_start, in sixtieths of a second
    cycles_completed, \* run's local cycles_completed
    cycles_missing,   \* run's local cycles_missing
    cycles_left,      \* execute_cycles: iterations of its loop still to run
    presents,         \* how often run has presented the frame in this iteration
    timer_ticks,      \* how often run has ticked the timers in this iteration
    hist,             \* the last cycles executed (at most HistLen), oldest first
    lock,             \* the mutex of pixel_buffer: "free", or the thread that holds it
    poisoned,         \* whether a thread panicked while it held the mutex
    wpc,              \* where App::window_event stands: "idle", "locking", "rendering"
    window_panicked,  \* whether the window thread (the main thread) panicked
    redraws,          \* how many RedrawRequested events the window thread has got
    decode_ok,        \* whether beep_audio_bytes decode (Decoder::new_looped)
    present_failed,   \* whether the last render() of the emulation thread failed
    iterations,       \* how many iterations of the loop of run were begun
    sent              \* the key events the window thread has sent, in order

vars ==
    << rom, memory, pc, stack, index_register, var_registers, delay_timer, sound_timer,
       should_draw, cycle_rate, op_shift_original, op_jump_with_offset_original,
       op_store_and_load_original, pressed_keys, audio_sink_initialized, frame,
       sink_paused, key_queue, keys_sent, panicked, overflow_checks, rpc, now,
       cycles_completed, cycles_missing, cycles_left, presents, timer_ticks, hist,
       hash_seed, lock, poisoned, wpc, window_panicked, redraws, decode_ok,
       present_failed, iterations, sent >>

FONT ==
    << 240, 144, 144, 144, 240,
       32, 96, 32, 32, 112,
       240, 16, 240, 128, 240,
       240, 16, 240, 16, 240,
       144, 144, 240, 16, 16,
       240, 128, 240, 16, 240,
       240, 128, 240, 144, 240,
       240, 16, 32, 64, 64,
       240, 144, 240, 144, 240,
       240, 144, 240, 16, 240,
       240, 144, 240, 144, 144,
       224, 144, 224, 144, 224,
       240, 128, 128, 128, 240,
       224, 144, 144, 144, 224,
       240, 128, 240, 128, 240,
       240, 128, 240, 128, 128 >>

\* what load_fonts leaves at address a of a memory of zeros
load_fonts(a) ==
    IF a >= FONT_PC /\ a < FONT_PC + Len(FONT) THEN FONT[a - FONT_PC + 1] ELSE 0

\* what load_rom leaves at address a (the program fits into memory)
load_rom(a) ==
    IF a >= PC_START /\ a < PC_START + Len(rom) THEN rom[a - PC_START + 1]
    ELSE load_fonts(a)

\* self.memory[a], for a < RAM_SIZE
Mem(m, a) == IF a \in DOMAIN m.memory THEN m.memory[a] ELSE load_rom(a)

\* self.memory[a] = v, for a < RAM_SIZE
MemWrite(m, a, v) ==
    LET keep == IF v = load_rom(a) THEN DOMAIN m.memory \ {a} ELSE DOMAIN m.memory \cup {a}
    IN  [m EXCEPT !.memory = [c \in keep |-> IF c = a THEN v ELSE m.memory[c]]]

\* the part of the state the handlers exec_* work on, as one record
Machine ==
    [ memory |-> memory, pc |-> pc, stack |-> stack,
      index_register |-> index_register, var_registers |-> var_registers,
      delay_timer |-> delay_timer, sound_timer |-> sound_timer,
      should_draw |-> should_draw, pressed_keys |-> pressed_keys,
      frame |-> frame, panicked |-> panicked ]

\* a panic of the emulation thread: the handler stops where it is
Panic(m, why) == [m EXCEPT !.panicked = why]

\* a + b in u16: the sum, or "overflow" when the build checks for it
Add16Fails(a, b) == overflow_checks /\ a + b >= U16_MOD
Add16(a, b) == (a + b) % U16_MOD

(***************************************************************************)
(* fetch                                                                   *)
(***************************************************************************)
\* fetch: the two bytes at pc, big-endian, and pc advanced by 2; a panic
\* when pc or pc + 1 is no index of memory
fetch(m) ==
    IF m.pc >= RAM_SIZE
    THEN [emu |-> Panic(m, "memory_index_out_of_bounds"), inst |-> 0]
    ELSE IF Add16Fails(m.pc, 1)
    THEN [emu |-> Panic(m, "overflow"), inst |-> 0]
    ELSE IF Add16(m.pc, 1) >= RAM_SIZE
    THEN [emu |-> Panic(m, "memory_index_out_of_bounds"), inst |-> 0]
    ELSE IF Add16Fails(m.pc, 2)
    THEN [emu |-> Panic(m, "overflow"), inst |-> 0]
    ELSE [emu |-> [m EXCEPT !.pc = Add16(m.pc, 2)],
          inst |-> BitOr((Mem(m, m.pc) * 256) % U16_MOD, Mem(m, Add16(m.pc, 1)), 16)]

(***************************************************************************)
(* The handlers, in the order of the source.                               *)
(***************************************************************************)
\* a clear that does not ask for a redraw
exec_00e0_no_request(m) == [m EXCEPT !.frame = {}]

exec_00e0(m) == [m EXCEPT !.frame = {}, !.should_draw = TRUE]

\* a return that does nothing on the empty stack
exec_00ee_no_op(m) ==
    IF m.stack = <<>> THEN m
    ELSE [m EXCEPT !.pc = m.stack[Len(m.stack)],
                   !.stack = SubSeq(m.stack, 1, Len(m.stack) - 1)]

exec_00ee(m) ==
    IF m.stack = <<>> THEN Panic(m, "unwrap_none")
    ELSE [m EXCEPT !.pc = m.stack[Len(m.stack)],
                   !.stack = SubSeq(m.stack, 1, Len(m.stack) - 1)]

exec_1nnn(m, nnn) == [m EXCEPT !.pc = nnn]

\* a call that pushes the address of the call itself
exec_2nnn_own_address(m, nnn) ==
    [m EXCEPT !.stack = Append(m.stack, m.pc - 2), !.pc = nnn]

exec_2nnn(m, nnn) == [m EXCEPT !.stack = Append(m.stack, m.pc), !.pc = nnn]

\* pc += 2 of the skips
Skip(m) ==
    IF Add16Fails(m.pc, 2) THEN Panic(m, "overflow")
    ELSE [m EXCEPT !.pc = Add16(m.pc, 2)]

\* a skip that advances pc by one byte only
exec_3xnn_short(m, x, nn) ==
    IF m.var_registers[x] = nn THEN [m EXCEPT !.pc = Add16(m.pc, 1)] ELSE m

exec_3xnn(m, x, nn) == IF m.var_registers[x] = nn THEN Skip(m) ELSE m

exec_4xnn(m, x, nn) == IF m.var_registers[x] # nn THEN Skip(m) ELSE m

exec_5xy0(m, x, y) ==
    IF m.var_registers[x] = m.var_registers[y] THEN Skip(m) ELSE m

exec_6xnn(m, x, nn) == [m EXCEPT !.var_registers[x] = nn % U8_MOD]

exec_7xnn(m, x, nn) ==
    [m EXCEPT !.var_registers[x] = (m.var_registers[x] + (nn % U8_MOD)) % U8_MOD]

exec_8xy0(m, x, y) == [m EXCEPT !.var_registers[x] = m.var_registers[y]]

exec_8xy1(m, x, y) ==
    [m EXCEPT !.var_registers[x] = BitOr(m.var_registers[x], m.var_registers[y], 8)]

exec_8xy2(m, x, y) ==
    [m EXCEPT !.var_registers[x] = BitAnd(m.var_registers[x], m.var_registers[y], 8)]

exec_8xy3(m, x, y) ==
    [m EXCEPT !.var_registers[x] = BitXor(m.var_registers[x], m.var_registers[y], 8)]

\* u8::overflowing_add and u8::overflowing_sub: <<result, overflow>>
overflowing_add(a, b) == << (a + b) % U8_MOD, a + b >= U8_MOD >>
overflowing_sub(a, b) == << (a - b + U8_MOD) % U8_MOD, a < b >>

\* an ADD that writes the flag before the sum
exec_8xy4_flag_first(m, x, y) ==
    LET r == overflowing_add(m.var_registers[x], m.var_registers[y])
        v1 == [m.var_registers EXCEPT ![FLAG] = IF r[2] THEN 1 ELSE 0]
    IN  [m EXCEPT !.var_registers = [v1 EXCEPT ![x] = r[1]]]

exec_8xy4(m, x, y) ==
    LET r == overflowing_add(m.var_registers[x], m.var_registers[y])
        v1 == [m.var_registers EXCEPT ![x] = r[1]]
        v2 == [v1 EXCEPT ![FLAG] = 0]
    IN  [m EXCEPT !.var_registers = IF r[2] THEN [v2 EXCEPT ![FLAG] = 1] ELSE v2]

\* a SUB whose flag is 1 only when vx is strictly greater than vy
exec_8xy5_strict(m, x, y) ==
    LET vx == m.var_registers[x]
        vy == m.var_registers[y]
        v1 == [m.var_registers EXCEPT ![x] = overflowing_sub(vx, vy)[1]]
    IN  [m EXCEPT !.var_registers = [v1 EXCEPT ![FLAG] = IF vx > vy THEN 1 ELSE 0]]

exec_8xy5(m, x, y) ==
    LET r == overflowing_sub(m.var_registers[x], m.var_registers[y])
        v1 == [m.var_registers EXCEPT ![x] = r[1]]
    IN  [m EXCEPT !.var_registers = [v1 EXCEPT ![FLAG] = IF r[2] THEN 0 ELSE 1]]

\* a SHR that always shifts vx, whatever the quirk
exec_8xy6_in_place(m, x, y) ==
    LET val == m.var_registers[x]
        v1 == [m.var_registers EXCEPT ![x] = Shr8(val, 1)]
    IN  [m EXCEPT !.var_registers = [v1 EXCEPT ![FLAG] = BitAnd(val, 1, 8)]]

exec_8xy6(m, x, y) ==
    LET val == IF ~op_shift_original THEN m.var_registers[x] ELSE m.var_registers[y]
        v1 == [m.var_registers EXCEPT ![x] = Shr8(val, 1)]
    IN  [m EXCEPT !.var_registers = [v1 EXCEPT ![FLAG] = BitAnd(val, 1, 8)]]

exec_8xy7(m, x, y) ==
    LET r == overflowing_sub(m.var_registers[y], m.var_registers[x])
        v1 == [m.var_registers EXCEPT ![x] = r[1]]
    IN  [m EXCEPT !.var_registers = [v1 EXCEPT ![FLAG] = IF r[2] THEN 0 ELSE 1]]

exec_8xye(m, x, y) ==
    LET val == IF ~op_shift_original THEN m.var_registers[x] ELSE m.var_registers[y]
        v1 == [m.var_registers EXCEPT ![x] = Shl8(val, 1)]
    IN  [m EXCEPT !.var_registers = [v1 EXCEPT ![FLAG] = Shr8(BitAnd(val, 128, 8), 7)]]

exec_9xy0(m, x, y) ==
    IF m.var_registers[x] # m.var_registers[y] THEN Skip(m) ELSE m

exec_annn(m, nnn) == [m EXCEPT !.index_register = nnn]

\* a jump with offset that adds v0 whatever the quirk
exec_bnnn_always_v0(m, x, nnn) == [m EXCEPT !.pc = Add16(m.var_registers[0], nnn)]

exec_bnnn(m, x, nnn) ==
    LET val == IF ~op_jump_with_offset_original
               THEN m.var_registers[x] ELSE m.var_registers[0]
    IN  IF Add16Fails(val, nnn) THEN Panic(m, "overflow")
        ELSE [m EXCEPT !.pc = Add16(val, nnn)]

\* val is the u16 the random source yields
exec_cxnn(m, x, nn, val) ==
    [m EXCEPT !.var_registers[x] = BitAnd(val, nn, 16) % U8_MOD]

(***************************************************************************)
(* exec_dxyn                                                               *)
(***************************************************************************)
\* the pixels of the buffer: Pixels::new(width, height) of App::resumed, with
\* the width and height main gives App::new
FRAME_PIXELS == DISPLAY_WIDTH * DISPLAY_HEIGHT

\* bit (7 - j) of the sprite byte
sprite_pixel_on(sprite_data, j) == BitAnd(Shr8(sprite_data, 7 - j), 1, 8) = 1

\* a pixel update that never turns a lit pixel off
DrawPixelOr(m, idx, sprite_on) ==
    IF sprite_on THEN [m EXCEPT !.frame = m.frame \cup {idx}] ELSE m

\* the update of the pixel idx by one sprite bit
DrawPixel(m, idx, sprite_on) ==
    LET display_pixel_on == idx \in m.frame
    IN  IF display_pixel_on /\ sprite_on
        THEN [m EXCEPT !.frame = m.frame \ {idx}, !.var_registers[FLAG] = 1]
        ELSE IF ~display_pixel_on /\ sprite_on
        THEN [m EXCEPT !.frame = m.frame \cup {idx}]
        ELSE m

\* a column step that wraps to column 0 instead of stopping at the right edge
ColumnWraps(vx, j) == (vx + j) % DISPLAY_WIDTH

\* frame_x of the j-th column of a sprite drawn from column vx
Column(vx, j) == vx + j

\* whether the loop over the columns stops before column j
RightEdge(vx, j) == Column(vx, j) = DISPLAY_WIDTH

\* the inner loop of exec_dxyn, from column j on, in the row frame_y
RECURSIVE DrawCols(_, _, _, _, _)
DrawCols(m, sprite_data, vx, frame_y, j) ==
    IF j = 8 \/ RightEdge(vx, j) THEN m
    ELSE LET idx == Column(vx, j) + frame_y * DISPLAY_WIDTH
         IN  IF idx >= FRAME_PIXELS THEN Panic(m, "frame_index_out_of_bounds")
             ELSE DrawCols(DrawPixel(m, idx, sprite_pixel_on(sprite_data, j)),
                           sprite_data, vx, frame_y, j + 1)

\* the outer loop of exec_dxyn, from row i on
RECURSIVE DrawRows(_, _, _, _, _)
DrawRows(m, vx, vy, n, i) ==
    IF i = n \/ vy + i = DISPLAY_HEIGHT THEN m
    ELSE IF Add16Fails(m.index_register, i) THEN Panic(m, "overflow")
    ELSE IF Add16(m.index_register, i) >= RAM_SIZE THEN Panic(m, "memory_index_out_of_bounds")
    ELSE LET m1 == DrawCols(m, Mem(m, Add16(m.index_register, i)), vx, vy + i, 0)
         IN  IF m1.panicked # "none" THEN m1 ELSE DrawRows(m1, vx, vy, n, i + 1)

exec_dxyn(m, x, y, n) ==
    LET vx == m.var_registers[x] % 64
        vy == m.var_registers[y] % 32
    IN  DrawRows([m EXCEPT !.should_draw = TRUE, !.var_registers[FLAG] = 0],
                 vx, vy, n, 0)

(***************************************************************************)
(* Keys, timers, index register, memory.                                   *)
(***************************************************************************)
exec_ex9e(m, x) == IF x \in m.pressed_keys THEN Skip(m) ELSE m

exec_exa1(m, x) == IF x \notin m.pressed_keys THEN Skip(m) ELSE m

exec_fx07(m, x) == [m EXCEPT !.var_registers[x] = m.delay_timer]

exec_fx15(m, x) == [m EXCEPT !.delay_timer = m.var_registers[x]]

exec_fx18(m, x) == [m EXCEPT !.sound_timer = m.var_registers[x]]

exec_fx1e(m, x) ==
    IF Add16Fails(m.index_register, m.var_registers[x]) THEN Panic(m, "overflow")
    ELSE [m EXCEPT !.index_register = Add16(m.index_register, m.var_registers[x])]

\* HashSet::new() draws the keys of its hasher at random, and the order
\* in which pressed_keys.iter() yields the keys follows from their hashes:
\* it is a function of the seed, which differs from one run of the program
\* to the next.  The model has two seeds, one that yields the keys in
\* ascending and one that yields them in descending order.
HashSeeds == {"ascending", "descending"}

\* pressed_keys.iter().next(), for a set that is not empty
iter_next(seed, keys) ==
    IF seed = "ascending"
    THEN CHOOSE k \in keys : \A j \in keys : k <= j
    ELSE CHOOSE k \in keys : \A j \in keys : k >= j

\* a block-for-key that lets pc advance when no key is pressed
exec_fx0a_no_wait(m, x, key) ==
    IF m.pressed_keys # {} THEN [m EXCEPT !.var_registers[x] = key % U8_MOD] ELSE m

\* key is the element pressed_keys.iter().next() yields when there is one
exec_fx0a(m, x, key) ==
    IF m.pressed_keys # {}
    THEN [m EXCEPT !.var_registers[x] = key % U8_MOD]
    ELSE IF m.pc < 2
    THEN IF overflow_checks THEN Panic(m, "overflow")
         ELSE [m EXCEPT !.pc = (m.pc - 2) % U16_MOD]
    ELSE [m EXCEPT !.pc = m.pc - 2]

\* font_digit_address, in u8: whether it overflows, and what it returns
font_digit_address_overflows(digit) ==
    \/ digit * 5 >= U8_MOD
    \/ (FONT_PC % U8_MOD) + ((digit * 5) % U8_MOD) >= U8_MOD

font_digit_address(digit) ==
    ((FONT_PC % U8_MOD) + ((digit * 5) % U8_MOD)) % U8_MOD

exec_fx29(m, x) ==
    LET vx == m.var_registers[x]
    IN  IF overflow_checks /\ font_digit_address_overflows(vx) THEN Panic(m, "overflow")
        ELSE [m EXCEPT !.index_register = font_digit_address(vx)]

\* the decimal digits of v, most significant first
RECURSIVE DecimalDigits(_)
DecimalDigits(v) ==
    IF v < 10 THEN <<v>> ELSE Append(DecimalDigits(v \div 10), v % 10)

\* format!("{:03}", vx): the digits, padded with zeros on the left to three
RECURSIVE PadZeros(_, _)
PadZeros(ds, width) == IF Len(ds) >= width THEN ds ELSE PadZeros(<<0>> \o ds, width)
\* the digits as "{}" formats them, without the zeros on the left
three_digit_unpadded(vx) == DecimalDigits(vx)

three_digit(vx) == PadZeros(DecimalDigits(vx), 3)

\* the loop of exec_fx33 from the digit at position idx (0-based) on
RECURSIVE StoreDigits(_, _, _)
StoreDigits(m, ds, idx) ==
    IF idx = Len(ds) THEN m
    ELSE IF Add16Fails(m.index_register, idx) THEN Panic(m, "overflow")
    ELSE IF Add16(m.index_register, idx) >= RAM_SIZE THEN Panic(m, "memory_index_out_of_bounds")
    ELSE StoreDigits(MemWrite(m, Add16(m.index_register, idx), ds[idx + 1]), ds, idx + 1)

exec_fx33(m, x) == StoreDigits(m, three_digit(m.var_registers[x]), 0)

\* index_register += x + 1 of the store and load quirk
AdvanceIndex(m, x) ==
    IF ~op_store_and_load_original THEN m
    ELSE IF Add16Fails(m.index_register, x + 1) THEN Panic(m, "overflow")
    ELSE [m EXCEPT !.index_register = Add16(m.index_register, x + 1)]

\* the loop of exec_fx55 from register i on
RECURSIVE StoreRegisters(_, _, _)
StoreRegisters(m, x, i) ==
    IF i > x THEN m
    ELSE IF Add16Fails(m.index_register, i) THEN Panic(m, "overflow")
    ELSE IF Add16(m.index_register, i) >= RAM_SIZE THEN Panic(m, "memory_index_out_of_bounds")
    ELSE StoreRegisters(MemWrite(m, Add16(m.index_register, i), m.var_registers[i]),
                        x, i + 1)

exec_fx55(m, x) ==
    LET m1 == StoreRegisters(m, x, 0)
    IN  IF m1.panicked # "none" THEN m1 ELSE AdvanceIndex(m1, x)

\* the loop of exec_fx65 from register i on
RECURSIVE LoadRegisters(_, _, _)
LoadRegisters(m, x, i) ==
    IF i > x THEN m
    ELSE IF Add16Fails(m.index_register, i) THEN Panic(m, "overflow")
    ELSE IF Add16(m.index_register, i) >= RAM_SIZE THEN Panic(m, "memory_index_out_of_bounds")
    ELSE LoadRegisters([m EXCEPT !.var_registers[i] = Mem(m, Add16(m.index_register, i))],
                       x, i + 1)

\* a load of v0 up to vx, vx left out
exec_fx65_exclusive(m, x) ==
    LET m1 == IF x = 0 THEN m ELSE LoadRegisters(m, x - 1, 0)
    IN  IF m1.panicked # "none" THEN m1 ELSE AdvanceIndex(m1, x)

exec_fx65(m, x) ==
    LET m1 == LoadRegisters(m, x, 0)
    IN  IF m1.panicked # "none" THEN m1 ELSE AdvanceIndex(m1, x)

(***************************************************************************)
(* decode_and_execute                                                      *)
(***************************************************************************)
\* the call the arm h of the match makes (the `_` arm only reports).  val:
\* what the random source yields; key: what the iteration over the pressed
\* keys yields first
Execute(m, instruction, h, val, key) ==
    LET x == field_x(instruction)
        y == field_y(instruction)
        n == field_n(instruction)
        nn == field_nn(instruction)
        nnn == field_nnn(instruction)
    IN  CASE h = "exec_00e0" -> exec_00e0(m)
          [] h = "exec_00ee" -> exec_00ee(m)
          [] h = "exec_1nnn" -> exec_1nnn(m, nnn)
          [] h = "exec_2nnn" -> exec_2nnn(m, nnn)
          [] h = "exec_3xnn" -> exec_3xnn(m, x, nn)
          [] h = "exec_4xnn" -> exec_4xnn(m, x, nn)
          [] h = "exec_5xy0" -> exec_5xy0(m, x, y)
          [] h = "exec_6xnn" -> exec_6xnn(m, x, nn)
          [] h = "exec_7xnn" -> exec_7xnn(m, x, nn)
          [] h = "exec_8xy0" -> exec_8xy0(m, x, y)
          [] h = "exec_8xy1" -> exec_8xy1(m, x, y)
          [] h = "exec_8xy2" -> exec_8xy2(m, x, y)
          [] h = "exec_8xy3" -> exec_8xy3(m, x, y)
          [] h = "exec_8xy4" -> exec_8xy4(m, x, y)
          [] h = "exec_8xy5" -> exec_8xy5(m, x, y)
          [] h = "exec_8xy6" -> exec_8xy6(m, x, y)
          [] h = "exec_8xy7" -> exec_8xy7(m, x, y)
          [] h = "exec_8xye" -> exec_8xye(m, x, y)
          [] h = "exec_9xy0" -> exec_9xy0(m, x, y)
          [] h = "exec_annn" -> exec_annn(m, nnn)
          [] h = "exec_bnnn" -> exec_bnnn(m, x, nnn)
          [] h = "exec_cxnn" -> exec_cxnn(m, x, nn, val)
          [] h = "exec_dxyn" -> exec_dxyn(m, x, y, n)
          [] h = "exec_ex9e" -> exec_ex9e(m, x)
          [] h = "exec_exa1" -> exec_exa1(m, x)
          [] h = "exec_fx07" -> exec_fx07(m, x)
          [] h = "exec_fx15" -> exec_fx15(m, x)
          [] h = "exec_fx18" -> exec_fx18(m, x)
          [] h = "exec_fx1e" -> exec_fx1e(m, x)
          [] h = "exec_fx0a" -> exec_fx0a(m, x, key)
          [] h = "exec_fx29" -> exec_fx29(m, x)
          [] h = "exec_fx33" -> exec_fx33(m, x)
          [] h = "exec_fx55" -> exec_fx55(m, x)
          [] h = "exec_fx65" -> exec_fx65(m, x)
          [] OTHER -> m

\* a decode_and_execute that also counts the delay timer down
decode_and_execute_ticking(m, instruction, val, key) ==
    LET m1 == Execute(m, instruction, Dispatch(instruction), val, key)
    IN  [m1 EXCEPT !.delay_timer = IF m1.delay_timer > 0 THEN m1.delay_timer - 1 ELSE 0]

\* a decode_and_execute for which an unknown instruction is fatal
decode_and_execute_unknown_fatal(m, instruction, val, key) ==
    IF Dispatch(instruction) = "unknown" THEN Panic(m, "unknown_instruction")
    ELSE Execute(m, instruction, Dispatch(instruction), val, key)

decode_and_execute(m, instruction, val, key) ==
    Execute(m, instruction, Dispatch(instruction), val, key)

(***************************************************************************)
(* Construction: Emulator::new, load_fonts, load_rom.                      *)
(***************************************************************************)
\* the state main's emulation thread builds: Emulator::new, then load_rom
new(program, rate, shift, jump, store) ==
    /\ rom = program
    /\ memory = [a \in {} |-> 0]
    /\ pc = PC_START
    /\ stack = <<>>
    /\ index_register = 0
    /\ var_registers = [r \in Nibble |-> 0]
    /\ delay_timer = INITIAL_TIMER
    /\ sound_timer = INITIAL_TIMER
    /\ should_draw = FALSE
    /\ cycle_rate = rate
    /\ op_shift_original = shift
    /\ op_jump_with_offset_original = jump
    /\ op_store_and_load_original = store
    /\ pressed_keys = {}
    /\ hash_seed \in HashSeeds
    /\ audio_sink_initialized = FALSE
    /\ frame = {}
    /\ sink_paused = FALSE
    /\ panicked = "none"
    /\ overflow_checks \in BOOLEAN

(***************************************************************************)
(* The key events of the window thread and handle_key_event.               *)
(***************************************************************************)
\* the match of handle_key_event on physical_key
KeyMap ==
    [ Digit1 |-> 1, Digit2 |-> 2, Digit3 |-> 3, Digit4 |-> 12,
      KeyQ |-> 4, KeyW |-> 5, KeyE |-> 6, KeyR |-> 13,
      KeyA |-> 7, KeyS |-> 8, KeyD |-> 9, KeyF |-> 14,
      KeyZ |-> 10, KeyX |-> 0, KeyC |-> 11, KeyV |-> 15 ]

\* the physical keys the window thread reports in the model; KeyP is a key
\* handle_key_event does not map
PhysicalKeys == {"Digit1", "KeyW", "KeyP"}

\* the key events of the model: each of these keys pressed, and the first
\* of them released
KeyEvents ==
    { e \in [physical_key : PhysicalKeys, state : {"Pressed", "Released"}] :
        e.state = "Pressed" \/ e.physical_key = "Digit1" }

\* a handle_key_event that takes a release off the channel without applying it
handle_key_event_no_release(queue, pressed) ==
    IF queue = <<>> THEN <<queue, pressed>>
    ELSE LET event == Head(queue)
         IN  IF event.physical_key \notin DOMAIN KeyMap \/ event.state = "Released"
             THEN <<Tail(queue), pressed>>
             ELSE <<Tail(queue), pressed \cup {KeyMap[event.physical_key]}>>

\* handle_key_event: <<the channel, pressed_keys>> after it
handle_key_event(queue, pressed) ==
    IF queue = <<>> THEN <<queue, pressed>>
    ELSE LET event == Head(queue)
         IN  IF event.physical_key \notin DOMAIN KeyMap THEN <<Tail(queue), pressed>>
             ELSE IF event.state = "Released"
             THEN <<Tail(queue), pressed \ {KeyMap[event.physical_key]}>>
             ELSE <<Tail(queue), pressed \cup {KeyMap[event.physical_key]}>>

(***************************************************************************)
(* One cycle of execute_cycles.                                            *)
(***************************************************************************)
RandWords == (0 .. MaxRand) \cup ((U16_MOD - 1 - MaxRand) .. (U16_MOD - 1))

\* what hist keeps of a machine state
Snap(m) ==
    [ memory |-> m.memory, pc |-> m.pc, stack |-> m.stack,
      index_register |-> m.index_register,
      var_registers |-> m.var_registers, delay_timer |-> m.delay_timer,
      sound_timer |-> m.sound_timer, should_draw |-> m.should_draw,
      pressed_keys |-> m.pressed_keys, frame |-> m.frame, panicked |-> m.panicked ]

Remember(h, rec) ==
    IF Len(h) < HistLen THEN Append(h, rec) ELSE Append(Tail(h), rec)

\* what no step changes: the program, the arguments of Emulator::new, the
\* build, the seed of the hasher, the audio data
Fixed ==
    << rom, cycle_rate, op_shift_original, op_jump_with_offset_original,
       op_store_and_load_original, overflow_checks, hash_seed, decode_ok >>

\* the state of the window thread and of the channel of key events
WindowVars == << wpc, window_panicked, redraws, key_queue, keys_sent, sent >>

\* the locals of run and what the model counts of it
RunVars == << now, cycles_completed, cycles_missing, presents, timer_ticks, iterations,
              present_failed >>

\* the handlers that lock pixel_buffer: exec_00e0 and exec_dxyn
LockingHandlers == {"exec_00e0", "exec_dxyn"}

\* whether the instruction at pc is one whose handler locks pixel_buffer
NeedsLock ==
    \E f \in {fetch(Machine)} :
        /\ f.emu.panicked = "none"
        /\ Dispatch(f.inst) \in LockingHandlers

\* fetch, then decode_and_execute: what one iteration of the loop of
\* execute_cycles does to the emulator
ExecuteCycle ==
    /\ \E m0 \in {Machine} :
       \E f \in {fetch(m0)} :
       \E h \in {Dispatch(f.inst)} :
       \E fetched \in {f.emu.panicked = "none"} :
       \E val \in IF fetched /\ h = "exec_cxnn" THEN RandWords ELSE {0} :
       \E key \in IF fetched /\ h = "exec_fx0a" /\ pressed_keys # {}
                  THEN {iter_next(hash_seed, pressed_keys)} ELSE {0} :
       \E m1 \in {IF fetched THEN decode_and_execute(f.emu, f.inst, val, key) ELSE f.emu} :
          /\ memory' = m1.memory
          /\ pc' = m1.pc
          /\ stack' = m1.stack
          /\ index_register' = m1.index_register
          /\ var_registers' = m1.var_registers
          /\ delay_timer' = m1.delay_timer
          /\ sound_timer' = m1.sound_timer
          /\ should_draw' = m1.should_draw
          /\ frame' = m1.frame
          /\ panicked' = m1.panicked
          /\ hist' = IF fetched
                     THEN Remember(hist, [inst |-> f.inst, handler |-> h,
                                          pre |-> Snap(m0), post |-> Snap(m1)])
                     ELSE hist
    /\ cycles_left' = cycles_left - 1
    /\ UNCHANGED << Fixed, WindowVars, RunVars, pressed_keys, audio_sink_initialized,
                    sink_paused >>

\* one iteration of the loop of execute_cycles, for an instruction whose
\* handler does not lock pixel_buffer
Cycle ==
    /\ rpc = "burst"
    /\ cycles_left > 0
    /\ panicked = "none"
    /\ ~window_panicked
    /\ ~NeedsLock
    /\ ExecuteCycle
    /\ UNCHANGED << rpc, lock, poisoned >>

\* exec_00e0 and exec_dxyn from pixel_buffer.lock().unwrap() on: the thread
\* waits until the mutex is free, panics when it is poisoned, and otherwise
\* runs the handler with the guard held
CycleLock ==
    /\ rpc = "burst"
    /\ cycles_left > 0
    /\ panicked = "none"
    /\ ~window_panicked
    /\ NeedsLock
    /\ lock = "free"
    /\ IF poisoned
       THEN /\ panicked' = "poisoned"
            /\ UNCHANGED << Fixed, WindowVars, RunVars, memory, pc, stack,
                            index_register, var_registers, delay_timer, sound_timer,
                            should_draw, frame, pressed_keys, audio_sink_initialized,
                            sink_paused, cycles_left, hist, lock, rpc >>
       ELSE /\ ExecuteCycle
            /\ lock' = "emulator"
            /\ rpc' = "draw"
    /\ UNCHANGED poisoned

\* the end of exec_00e0 and exec_dxyn, where the guard is dropped: by the
\* return of the handler, or by the unwinding of a panic inside it, which
\* poisons the mutex
CycleDraw ==
    /\ rpc = "draw"
    /\ lock' = "free"
    /\ poisoned' = (panicked # "none")
    /\ rpc' = "burst"
    /\ UNCHANGED << Fixed, WindowVars, RunVars, memory, pc, stack, index_register,
                    var_registers, delay_timer, sound_timer, should_draw, frame,
                    pressed_keys, audio_sink_initialized, sink_paused, panicked,
                    cycles_left, hist >>

(***************************************************************************)
(* Emulator::run and the window thread.                                    *)
(***************************************************************************)
\* how far wall time moves on from one iteration to the next, in sixtieths
\* of a second.  The loop sleeps for one at least and may be held up for any
\* longer; the model follows it when it is held up for a third of a second
\* or for a whole second
Advances == {TARGET_FPS \div 3, TARGET_FPS}

\* cycle_start.elapsed().as_secs()
as_secs(t) == t \div TARGET_FPS

\* an iteration of the loop of run up to the call of execute_cycles: the
\* sleep, handle_key_event, cycles_missing
IterBegin ==
    /\ rpc = "sleep"
    /\ panicked = "none"
    /\ ~window_panicked
    /\ \E adv \in Advances :
        /\ now + adv <= MaxNow
        /\ now' = now + adv
    /\ LET hk == handle_key_event(key_queue, pressed_keys)
       IN  /\ key_queue' = hk[1]
           /\ pressed_keys' = hk[2]
    /\ cycles_missing' = (as_secs(now') * cycle_rate) - cycles_completed
    /\ cycles_left' = cycles_missing'
    /\ rpc' = "burst"
    /\ presents' = 0
    /\ timer_ticks' = 0
    /\ iterations' = iterations + 1
    /\ UNCHANGED << Fixed, memory, pc, stack, index_register, var_registers, delay_timer,
                    sound_timer, should_draw, audio_sink_initialized, frame, sink_paused,
                    keys_sent, sent, panicked, cycles_completed, hist, lock, poisoned,
                    wpc, window_panicked, redraws, present_failed >>

\* update_sound_timer, on the record of the fields it works on; it panics
\* in the unwrap of Decoder::new_looped when the audio data do not decode
update_sound_timer(a) ==
    IF a.sound_timer > 0
    THEN IF ~a.audio_sink_initialized /\ ~decode_ok
         THEN [a EXCEPT !.panicked = "unwrap_err"]
         ELSE [a EXCEPT !.sound_timer = a.sound_timer - 1,
                        !.audio_sink_initialized = TRUE,
                        !.sink_paused = FALSE]
    ELSE [a EXCEPT !.sink_paused = TRUE]

update_delay_timer(d) == IF d > 0 THEN d - 1 ELSE d

\* the iteration once execute_cycles has returned, up to the test of
\* should_draw: cycles_completed, update_sound_timer, update_delay_timer
IterEnd ==
    /\ rpc = "burst"
    /\ cycles_left = 0
    /\ panicked = "none"
    /\ ~window_panicked
    /\ cycles_completed' = cycles_completed + cycles_missing
    /\ \E a \in {update_sound_timer([sound_timer |-> sound_timer,
                                      audio_sink_initialized |-> audio_sink_initialized,
                                      sink_paused |-> sink_paused,
                                      panicked |-> panicked])} :
        /\ sound_timer' = a.sound_timer
        /\ audio_sink_initialized' = a.audio_sink_initialized
        /\ sink_paused' = a.sink_paused
        /\ panicked' = a.panicked
        /\ IF a.panicked # "none"
           THEN UNCHANGED << delay_timer, timer_ticks, rpc >>
           ELSE /\ delay_timer' = update_delay_timer(delay_timer)
                /\ timer_ticks' = timer_ticks + 1
                /\ rpc' = IF should_draw THEN "render_lock" ELSE "sleep"
    /\ UNCHANGED << Fixed, WindowVars, memory, pc, stack, index_register, var_registers,
                    should_draw, pressed_keys, frame, now, cycles_missing, cycles_left,
                    presents, iterations, present_failed, hist, lock, poisoned >>

\* render up to pixel_buffer.lock().unwrap()
RenderLock ==
    /\ rpc = "render_lock"
    /\ panicked = "none"
    /\ ~window_panicked
    /\ lock = "free"
    /\ IF poisoned
       THEN panicked' = "poisoned" /\ UNCHANGED << lock, rpc >>
       ELSE lock' = "emulator" /\ rpc' = "render" /\ UNCHANGED panicked
    /\ UNCHANGED << Fixed, WindowVars, RunVars, memory, pc, stack, index_register,
                    var_registers, delay_timer, sound_timer, should_draw, frame,
                    pressed_keys, audio_sink_initialized, sink_paused, cycles_left,
                    hist, poisoned >>

\* render with the mutex held: the present, which may fail and is then
\* reported; the guard is dropped, and run clears should_draw
Render ==
    /\ rpc = "render"
    /\ ~window_panicked
    /\ present_failed' \in BOOLEAN
    /\ presents' = presents + 1
    /\ should_draw' = FALSE
    /\ lock' = "free"
    /\ rpc' = "sleep"
    /\ UNCHANGED << Fixed, WindowVars, memory, pc, stack, index_register, var_registers,
                    delay_timer, sound_timer, frame, pressed_keys, audio_sink_initialized,
                    sink_paused, panicked, now, cycles_completed, cycles_missing,
                    cycles_left, timer_ticks, iterations, hist, poisoned >>

\* what the window thread leaves alone
EmulatorVars ==
    << memory, pc, stack, index_register, var_registers, delay_timer, sound_timer,
       should_draw, pressed_keys, audio_sink_initialized, frame, sink_paused, panicked,
       rpc, cycles_left, hist >>

\* App::window_event, WindowEvent::KeyboardInput: the event is sent to the
\* channel (and lost when the emulation thread, the receiver, is gone)
WindowKeyboardInput ==
    /\ wpc = "idle"
    /\ ~window_panicked
    /\ keys_sent < MaxKeyEvents
    /\ \E event \in KeyEvents :
        /\ key_queue' = IF panicked = "none" THEN Append(key_queue, event) ELSE key_queue
        /\ sent' = IF panicked = "none" THEN Append(sent, event) ELSE sent
    /\ keys_sent' = keys_sent + 1
    /\ UNCHANGED << Fixed, EmulatorVars, RunVars, lock, poisoned, wpc, window_panicked,
                    redraws >>

\* App::window_event, WindowEvent::RedrawRequested, up to the lock
WindowRedrawRequested ==
    /\ wpc = "idle"
    /\ ~window_panicked
    /\ redraws < MaxRedraws
    /\ redraws' = redraws + 1
    /\ wpc' = "locking"
    /\ UNCHANGED << Fixed, EmulatorVars, RunVars, lock, poisoned, window_panicked,
                    key_queue, keys_sent, sent >>

\* pixel_buffer.lock().unwrap() of the window thread: it waits until the
\* mutex is free, and panics when it is poisoned
WindowLock ==
    /\ wpc = "locking"
    /\ ~window_panicked
    /\ lock = "free"
    /\ IF poisoned
       THEN window_panicked' = TRUE /\ UNCHANGED << lock, wpc >>
       ELSE lock' = "window" /\ wpc' = "rendering" /\ UNCHANGED window_panicked
    /\ UNCHANGED << Fixed, EmulatorVars, RunVars, poisoned, redraws, key_queue,
                    keys_sent, sent >>

\* buffer.render() of the window thread, a failure of which is reported,
\* and the end of the scope of the guard
WindowRender ==
    /\ wpc = "rendering"
    /\ lock' = "free"
    /\ wpc' = "idle"
    /\ UNCHANGED << Fixed, EmulatorVars, RunVars, poisoned, window_panicked, redraws,
                    key_queue, keys_sent, sent >>

(***************************************************************************)
(* Programs.                                                               *)
(***************************************************************************)
\* the two bytes of an instruction, from its nibbles or its fields
Op4(a, b, c, d) == << a * 16 + b, c * 16 + d >>
OpXNN(op, x, nn) == << op * 16 + x, nn >>
OpNNN(op, nnn) == << op * 16 + (nnn \div 256), nnn % 256 >>
OpWord(w) == << w \div 256, w % 256 >>

RegSample == (0 .. MaxRegIdx) \cup {FLAG}

ByteSample ==
    (0 .. MaxSmallByte) \cup ((127 - MaxSmallByte) .. (128 + MaxSmallByte))
        \cup ((255 - MaxSmallByte) .. 255)

\* every instruction word, alone
DecodeRoms == { [bytes |-> OpWord(w), cycles |-> 1] : w \in Word }

\* vx := a; vy := b; then one register-register instruction 8XYop
AluOps == {0, 1, 2, 3, 4, 5, 6, 7, 14}
AluRoms ==
    { [bytes |-> OpXNN(6, x, a) \o OpXNN(6, y, b) \o Op4(8, x, y, op), cycles |-> 3] :
        x \in RegSample, y \in RegSample, a \in ByteSample, b \in ByteSample, op \in AluOps }

\* vx := a; vy := b; then one conditional skip (3XNN and 4XNN with nn = b)
SkipOp(k, x, y, nn) == IF k = 3 \/ k = 4 THEN OpXNN(k, x, nn) ELSE Op4(k, x, y, 0)
SkipRoms ==
    { [bytes |-> OpXNN(6, x, a) \o OpXNN(6, y, b) \o SkipOp(k, x, y, b), cycles |-> 3] :
        x \in RegSample, y \in RegSample, a \in ByteSample, b \in ByteSample,
        k \in {3, 4, 5, 9} }

\* clear; vx := a; vy := b; I := the sprite; draw; draw again.  The sprite
\* follows the code, or lies at the last byte of memory
CoordSample == {0, 60, 63, 95, 255}
RowsSample == (0 .. MaxSpriteRows) \cup {15}
SpriteSample == { <<0>>, <<255>>, <<1>>, <<129, 60>> }
SpriteRows(pattern, n) == [k \in 1 .. n |-> pattern[((k - 1) % Len(pattern)) + 1]]
DrawCode(x, y, a, b, n, addr) ==
    Op4(0, 0, 14, 0) \o OpXNN(6, x, a) \o OpXNN(6, y, b) \o OpNNN(10, addr)
        \o Op4(13, x, y, n) \o Op4(13, x, y, n)
DrawRoms ==
    { [bytes |-> DrawCode(x, y, a, b, n, PC_START + 12) \o SpriteRows(sp, n), cycles |-> 6] :
        x \in RegSample, y \in RegSample, a \in CoordSample, b \in CoordSample,
        n \in RowsSample, sp \in SpriteSample }
    \cup
    { [bytes |-> DrawCode(0, 1, a, 0, n, RAM_SIZE - 1), cycles |-> 6] :
        a \in CoordSample, n \in RowsSample }

\* programs that loop, for the controller loop:
\*   wait for a key into v1, again and again
\*   v1 := 5, then skip (or not) on the key of v1, into one of two loops
\*   write and read the timers, again and again
WaitKeyRom == Op4(15, 1, 0, 10) \o OpNNN(1, PC_START)
KeySkipRom(op) ==
    OpXNN(6, 1, 5) \o op \o OpNNN(1, PC_START + 4) \o OpNNN(1, PC_START + 6)
TimerRom ==
    OpXNN(6, 0, 1) \o Op4(15, 0, 1, 5) \o Op4(15, 0, 1, 8) \o Op4(15, 1, 0, 7)
        \o OpNNN(1, PC_START + 8)
\* v0 := a; v1 := b; vf := 9; I := addr; store v0..vx; vx := 170;
\* I := addr; load v0..vx
StoreLoadCode(x, a, b, addr) ==
    OpXNN(6, 0, a) \o OpXNN(6, 1, b) \o OpXNN(6, FLAG, 9) \o OpNNN(10, addr)
        \o Op4(15, x, 5, 5) \o OpXNN(6, x, 170) \o OpNNN(10, addr) \o Op4(15, x, 6, 5)
StoreLoadAddresses(x) == {768, RAM_SIZE - 1 - x, RAM_SIZE - x}
StoreLoadRoms ==
    UNION { { [bytes |-> StoreLoadCode(x, a, b, addr), cycles |-> 8] :
                a \in {1, 255}, b \in {0, 254}, addr \in StoreLoadAddresses(x) } :
            x \in RegSample }

\* vx := v; I := addr; the decimal digits of vx to memory
DecimalSample == {7, 10, 99, 100, 205} \cup ByteSample
DecimalRoms ==
    { [bytes |-> OpXNN(6, x, v) \o OpNNN(10, addr) \o Op4(15, x, 3, 3), cycles |-> 3] :
        x \in RegSample, v \in DecimalSample,
        addr \in {768, PC_START + 6, RAM_SIZE - 3, RAM_SIZE - 2} }

\* vx := v; I := the address of the character vx
FontSample == (0 .. 15) \cup {16, 35, 36, 51, 52, 255}
FontRoms ==
    { [bytes |-> OpXNN(6, x, v) \o Op4(15, x, 2, 9), cycles |-> 2] :
        x \in RegSample, v \in FontSample }

\* programs that reach beyond memory: a jump to its last byte and to its
\* last word, a jump with offset past it, a draw, a store and a load from
\* its last byte
BeyondRoms ==
    { [bytes |-> OpNNN(1, RAM_SIZE - 1), cycles |-> 2],
      [bytes |-> OpNNN(1, RAM_SIZE - 2), cycles |-> 3],
      [bytes |-> OpXNN(6, FLAG, 255) \o OpNNN(11, RAM_SIZE - 1), cycles |-> 3],
      [bytes |-> OpNNN(10, RAM_SIZE - 1) \o Op4(13, 0, 0, 2), cycles |-> 2],
      [bytes |-> OpXNN(6, 0, 7) \o OpNNN(10, RAM_SIZE - 1) \o Op4(15, 1, 5, 5), cycles |-> 3],
      [bytes |-> OpNNN(10, RAM_SIZE - 1) \o Op4(15, 1, 6, 5), cycles |-> 2] }

\* v0 := 255; I := the last byte of memory; then I += v0 again and again,
\* until I has passed the largest u16
IndexWrapAdds == ((U16_MOD - RAM_SIZE) \div 255) + 1
IndexWrapRom ==
    [ bytes |-> OpXNN(6, 0, 255) \o OpNNN(10, RAM_SIZE - 1) \o Op4(15, 0, 1, 14)
                    \o OpNNN(1, PC_START + 4),
      cycles |-> 2 + 2 * IndexWrapAdds ]

\* programs that write where load_fonts has put the characters: the digits
\* of v0 = 0 over the character 0, and v0 = 7 over the last byte of F
FontWriteRoms ==
    { [bytes |-> OpNNN(10, FONT_PC) \o Op4(15, 0, 3, 3), cycles |-> 2],
      [bytes |-> OpXNN(6, 0, 7) \o OpNNN(10, FONT_PC + Len(FONT) - 1) \o Op4(15, 0, 5, 5),
       cycles |-> 3] }

MemRoms ==
    StoreLoadRoms \cup DecimalRoms \cup FontRoms \cup BeyondRoms \cup {IndexWrapRom}
        \cup FontWriteRoms

\* clear, draw one row from address 0, I := the font, draw the character 0,
\* then loop without drawing
DrawLoopRom ==
    Op4(0, 0, 14, 0) \o Op4(13, 0, 0, 1) \o OpNNN(10, FONT_PC) \o Op4(13, 0, 0, 5)
        \o OpNNN(1, PC_START + 8)
\* draw two rows from the last byte of memory
DrawBeyondRom == OpNNN(10, RAM_SIZE - 1) \o Op4(13, 0, 0, 2)
\* a return on the empty stack, and an instruction behind it
ReturnRom == Op4(0, 0, 14, 14) \o OpXNN(6, 0, 1)
RunRoms ==
    { WaitKeyRom, KeySkipRom(Op4(14, 1, 9, 14)), KeySkipRom(Op4(14, 1, 10, 1)), TimerRom,
      DrawLoopRom, ReturnRom }
DisplayRoms == { DrawLoopRom, DrawBeyondRom }

\* programs of calls and returns.  NestRom: a chain of NestDepth calls, each
\* to the next block, the last block a return and every block but the first
\* a return after its call; the first block loops after its call.  TwiceRom:
\* the same subroutine called from two places.  UnderflowRoms: a return on
\* the empty stack, first or after a call and its return, and an
\* instruction behind it
NestDepth == HistLen \div 2
Block(i) == PC_START + 4 * i
RECURSIVE NestCode(_, _)
NestCode(i, d) ==
    IF i = d THEN Op4(0, 0, 14, 14)
    ELSE OpNNN(2, Block(i + 1))
            \o (IF i = 0 THEN OpNNN(1, Block(0) + 2) ELSE Op4(0, 0, 14, 14))
            \o NestCode(i + 1, d)
NestRoms ==
    { [bytes |-> NestCode(0, d), cycles |-> 2 * d + 1] : d \in 1 .. NestDepth }
TwiceRom ==
    [ bytes |-> OpNNN(2, PC_START + 6) \o OpNNN(2, PC_START + 6) \o OpNNN(1, PC_START + 4)
                    \o Op4(0, 0, 14, 14),
      cycles |-> 5 ]
\* v1 := 5; a word no arm of the match takes; v1 += 1
UnknownSample ==
    { w \in { 0, 225, 239, 4095, 20481, 24575, 32776, 36863, 36865, 57344, 57503, 61346,
              61440, 61451, 61951, 65382 } : Dispatch(w) = "unknown" }
UnknownRoms ==
    { [bytes |-> OpXNN(6, 1, 5) \o OpWord(w) \o OpXNN(7, 1, 1), cycles |-> 3] :
        w \in UnknownSample }

\* v0 := a; vx := b; jump with offset to x * 256 + low
JumpRoms ==
    { [bytes |-> OpXNN(6, 0, a) \o OpXNN(6, x, b) \o OpNNN(11, x * 256 + low),
       cycles |-> 3] :
        a \in {1, 255}, b \in {2, 255}, x \in RegSample, low \in {0, 255} }

UnderflowRoms ==
    { [bytes |-> Op4(0, 0, 14, 14) \o OpXNN(6, 0, 1), cycles |-> 2],
      [bytes |-> OpXNN(6, 1, 7) \o OpNNN(10, 768) \o OpNNN(2, PC_START + 6)
                    \o Op4(0, 0, 14, 14) \o OpXNN(6, 0, 1),
       cycles |-> 6] }

(***************************************************************************)
(* Specifications.                                                         *)
(***************************************************************************)
\* the window thread after App::resumed has made the pixel buffer and its
\* mutex, with no event handled yet
resumed ==
    /\ lock = "free"
    /\ poisoned = FALSE
    /\ wpc = "idle"
    /\ window_panicked = FALSE
    /\ redraws = 0
    /\ key_queue = <<>>
    /\ keys_sent = 0
    /\ sent = <<>>

\* the emulator as main starts it, with the quirks as main's arguments
\* default them: run at the top of its loop, before the first iteration
AtLoop(roms) ==
    /\ \E program \in roms, rate \in 1 .. MaxCycleRate :
        new(program, rate, FALSE, FALSE, FALSE)
    /\ resumed
    /\ decode_ok \in BOOLEAN
    /\ rpc = "sleep"
    /\ now = 0
    /\ cycles_completed = 0
    /\ cycles_missing = 0
    /\ cycles_left = 0
    /\ presents = 0
    /\ timer_ticks = 0
    /\ iterations = 0
    /\ present_failed = FALSE
    /\ hist = <<>>

Init == AtLoop(RunRoms)

\* the steps of the emulation thread
EmulatorNext ==
    IterBegin \/ Cycle \/ CycleLock \/ CycleDraw \/ IterEnd \/ RenderLock \/ Render

\* the emulation thread, and a window thread that gets key events only
Next == EmulatorNext \/ WindowKeyboardInput

Spec == Init /\ [][Next]_vars

\* the emulation thread with a program that draws, and a window thread
\* that gets redraw requests only.  Both threads are scheduled: a thread
\* that holds the mutex goes on to the end of its draw or present, where
\* it drops the guard, and a window thread that waits for the mutex gets
\* it when it is free again and again
InitDisplay == AtLoop(DisplayRoms)

WindowRedraw == WindowRedrawRequested \/ WindowLock \/ WindowRender

NextDisplay == EmulatorNext \/ WindowRedraw

SpecDisplay ==
    /\ InitDisplay
    /\ [][NextDisplay]_vars
    /\ WF_vars(CycleDraw)
    /\ WF_vars(Render)
    /\ WF_vars(WindowRender)
    /\ SF_vars(WindowLock)

\* the emulator at the call of execute_cycles in a first iteration of run
\* that comes a second after cycle_start, with a cycle rate that is the
\* number of instructions of the program.  No key is pressed, so that the
\* seed of the hasher plays no part: one seed stands for all
AtBurstOf(roms, shifts, jumps, stores) ==
    /\ \E r \in roms, shift \in shifts, jump \in jumps, store \in stores :
        /\ new(r.bytes, r.cycles, shift, jump, store)
        /\ cycles_missing = r.cycles
        /\ cycles_left = r.cycles
    /\ resumed
    /\ hash_seed = "ascending"
    /\ decode_ok = TRUE
    /\ rpc = "burst"
    /\ now = TARGET_FPS
    /\ cycles_completed = 0
    /\ presents = 0
    /\ timer_ticks = 0
    /\ iterations = 1
    /\ present_failed = FALSE
    /\ hist = <<>>

\* with the jump as main's arguments default it
AtBurstWith(roms, shifts, stores) == AtBurstOf(roms, shifts, {FALSE}, stores)

\* the steps of execute_cycles
CycleNext == Cycle \/ CycleLock \/ CycleDraw

AtBurst(roms, shifts) == AtBurstWith(roms, shifts, {FALSE})

InitDecode == AtBurst(DecodeRoms, {FALSE})
SpecDecode == InitDecode /\ [][CycleNext]_vars

InitAlu == AtBurst(AluRoms \cup SkipRoms, BOOLEAN)
SpecAlu == InitAlu /\ [][Cycle]_vars

InitDraw == AtBurst(DrawRoms, {FALSE})
SpecDraw == InitDraw /\ [][CycleNext]_vars

InitMem == AtBurstWith(MemRoms, {FALSE}, BOOLEAN)

\* the programs of jumps, calls, returns and unknown words, with the jump
\* with offset in both of its behaviours
FlowRoms == NestRoms \cup {TwiceRom} \cup UnderflowRoms \cup UnknownRoms \cup JumpRoms
InitFlow == AtBurstOf(FlowRoms, {FALSE}, BOOLEAN, {FALSE})
SpecFlow == InitFlow /\ [][Cycle]_vars
SpecMem == InitMem /\ [][CycleNext]_vars

(***************************************************************************)
(* Properties.  A record r of hist is a cycle that was executed: r.inst the*)
(* word fetched, r.handler the arm taken, r.pre the state before the fetch,*)
(* r.post the state after the handler.                                     *)
(***************************************************************************)
Cycles == { hist[k] : k \in 1 .. Len(hist) }
Vx(r) == r.pre.var_registers[field_x(r.inst)]
Vy(r) == r.pre.var_registers[field_y(r.inst)]

\* C1: every instruction word fetched is dispatched to exactly one arm of
\* the match: at most one known handler's pattern matches it, the arm taken
\* is that handler's, and it is the unknown-instruction report exactly when
\* no pattern matches; the dispatch fails for no word.
C1_DecodeTotal ==
    \A r \in Cycles :
        /\ r.handler \in KnownHandlers \cup {"unknown"}
        /\ Cardinality(MatchingArms(r.inst)) <= 1
        /\ (r.handler = "unknown") <=> (MatchingArms(r.inst) = {})
        /\ \A k \in MatchingArms(r.inst) : MatchArms[k][1] = r.handler

C1_Witness ==
    \E r \in Cycles : r.inst = 33023 /\ r.handler = "unknown"

\* C2: a cycle that executes a conditional skip on registers or immediate
\* (3XNN, 4XNN, 5XY0, 9XY0) leaves pc 4 greater than before the fetch when
\* the condition holds of the registers before it, and 2 greater when not.
SkipCondition(r) ==
    CASE r.handler = "exec_3xnn" -> Vx(r) = field_nn(r.inst)
      [] r.handler = "exec_4xnn" -> Vx(r) # field_nn(r.inst)
      [] r.handler = "exec_5xy0" -> Vx(r) = Vy(r)
      [] r.handler = "exec_9xy0" -> Vx(r) # Vy(r)

RegisterSkips == {"exec_3xnn", "exec_4xnn", "exec_5xy0", "exec_9xy0"}

C2_SkipAdvance ==
    \A r \in Cycles :
        r.handler \in RegisterSkips =>
            /\ r.post.panicked = "none"
            /\ r.post.pc = r.pre.pc + (IF SkipCondition(r) THEN 4 ELSE 2)

C2_Witness ==
    \E r \in Cycles :
        /\ r.handler = "exec_3xnn"
        /\ Vx(r) = 255
        /\ field_nn(r.inst) = 255
        /\ r.post.pc = r.pre.pc + 4

\* C4: after ADD (8XY4), whatever x, y and the registers, VF is 1 when
\* vx + vy > 255 and 0 when not (also when x or y is the flag register),
\* and when x is not the flag register vx is (vx + vy) mod 256.
C4_AddFlag ==
    \A r \in Cycles :
        r.handler = "exec_8xy4" =>
            /\ r.post.panicked = "none"
            /\ r.post.var_registers[FLAG] = (IF Vx(r) + Vy(r) > 255 THEN 1 ELSE 0)
            /\ field_x(r.inst) # FLAG =>
                   r.post.var_registers[field_x(r.inst)] = (Vx(r) + Vy(r)) % 256

C4_Witness ==
    \E r \in Cycles :
        /\ r.handler = "exec_8xy4"
        /\ field_x(r.inst) = FLAG
        /\ field_y(r.inst) = 0
        /\ Vx(r) = 255
        /\ Vy(r) = 1
        /\ r.post.var_registers[FLAG] = 1

\* C5: after SUB (8XY5) VF is 1 when vx >= vy and 0 when not, and vx is
\* (vx - vy) mod 256; after SUBN (8XY7) VF is 1 when vy >= vx and 0 when
\* not, and vx is (vy - vx) mod 256; when x is the flag register it holds
\* the flag, which is written last.
C5_SubFlag ==
    \A r \in Cycles :
        /\ r.handler = "exec_8xy5" =>
            /\ r.post.panicked = "none"
            /\ r.post.var_registers[FLAG] = (IF Vx(r) >= Vy(r) THEN 1 ELSE 0)
            /\ field_x(r.inst) # FLAG =>
                   r.post.var_registers[field_x(r.inst)] = (Vx(r) - Vy(r)) % 256
        /\ r.handler = "exec_8xy7" =>
            /\ r.post.panicked = "none"
            /\ r.post.var_registers[FLAG] = (IF Vy(r) >= Vx(r) THEN 1 ELSE 0)
            /\ field_x(r.inst) # FLAG =>
                   r.post.var_registers[field_x(r.inst)] = (Vy(r) - Vx(r)) % 256

C5_Witness ==
    \E r \in Cycles :
        /\ r.handler = "exec_8xy5"
        /\ field_x(r.inst) = 0
        /\ field_y(r.inst) = 1
        /\ Vx(r) = 128
        /\ Vy(r) = 128
        /\ r.post.var_registers[FLAG] = 1
        /\ r.post.var_registers[0] = 0

\* C6 (as claimed): after SHR (8XY6) and SHL (8XYE), with the shift quirk
\* enabled the value shifted is vy, vx receives the shifted result and vy
\* is unchanged when y is neither x nor the flag register; with the quirk
\* disabled the value shifted is vx; in both modes VF ends as the bit
\* shifted out of the value shifted (bit 0 for SHR, bit 7 for SHL).
Shifts == {"exec_8xy6", "exec_8xye"}
ShiftSource(r) == IF op_shift_original THEN Vy(r) ELSE Vx(r)
Shifted(r) ==
    IF r.handler = "exec_8xy6" THEN ShiftSource(r) \div 2 ELSE (ShiftSource(r) * 2) % 256
ShiftedOut(r) ==
    IF r.handler = "exec_8xy6" THEN ShiftSource(r) % 2 ELSE ShiftSource(r) \div 128

C6_ShiftAsClaimed ==
    \A r \in Cycles :
        r.handler \in Shifts =>
            /\ r.post.panicked = "none"
            /\ r.post.var_registers[FLAG] = ShiftedOut(r)
            /\ op_shift_original =>
                /\ r.post.var_registers[field_x(r.inst)] = Shifted(r)
                /\ field_y(r.inst) \notin {field_x(r.inst), FLAG} =>
                       r.post.var_registers[field_y(r.inst)] = Vy(r)

\* C6 (amended): as claimed, but vx receives the shifted result when x is
\* not the flag register (in either mode); when x is the flag register it
\* holds the bit shifted out, which is written last.
C6_ShiftQuirk ==
    \A r \in Cycles :
        r.handler \in Shifts =>
            /\ r.post.panicked = "none"
            /\ r.post.var_registers[FLAG] = ShiftedOut(r)
            /\ field_x(r.inst) # FLAG =>
                   r.post.var_registers[field_x(r.inst)] = Shifted(r)
            /\ (op_shift_original /\ field_y(r.inst) \notin {field_x(r.inst), FLAG}) =>
                   r.post.var_registers[field_y(r.inst)] = Vy(r)

C6_Witness ==
    \E r \in Cycles :
        /\ r.handler = "exec_8xy6"
        /\ op_shift_original
        /\ field_x(r.inst) = 0
        /\ field_y(r.inst) = 1
        /\ Vx(r) = 0
        /\ Vy(r) = 129
        /\ r.post.var_registers[0] = 64
        /\ r.post.var_registers[1] = 129
        /\ r.post.var_registers[FLAG] = 1

\* C3: EX9E skips the next instruction (pc ends 4 greater than before the
\* fetch, otherwise 2 greater) exactly when the key whose code is the value
\* held in vx is in the pressed-key set, and EXA1 exactly when it is not.
C3_KeySkipByValue ==
    \A r \in Cycles :
        /\ r.handler = "exec_ex9e" =>
               r.post.pc = r.pre.pc + (IF Vx(r) \in r.pre.pressed_keys THEN 4 ELSE 2)
        /\ r.handler = "exec_exa1" =>
               r.post.pc = r.pre.pc + (IF Vx(r) \notin r.pre.pressed_keys THEN 4 ELSE 2)

\* C7: a draw (DXYN) changes no pixel but those at column (vx mod 64) + c
\* and row (vy mod 32) + r with 0 <= c < 8, 0 <= r < n, column <= 63 and
\* row <= 31: none to the left of the start column or above the start row,
\* and it writes nowhere outside the buffer of 64 x 32 pixels.
Changed(r) == (r.pre.frame \ r.post.frame) \cup (r.post.frame \ r.pre.frame)
StartColumn(r) == Vx(r) % 64
StartRow(r) == Vy(r) % 32
PixelColumn(p) == p % 64
PixelRow(p) == p \div 64

C7_DrawClips ==
    \A r \in Cycles :
        r.handler = "exec_dxyn" =>
            /\ r.post.panicked # "frame_index_out_of_bounds"
            /\ r.post.frame \subseteq 0 .. (64 * 32 - 1)
            /\ \A p \in Changed(r) :
                /\ PixelColumn(p) >= StartColumn(r)
                /\ PixelColumn(p) < StartColumn(r) + 8
                /\ PixelColumn(p) <= 63
                /\ PixelRow(p) >= StartRow(r)
                /\ PixelRow(p) < StartRow(r) + field_n(r.inst)
                /\ PixelRow(p) <= 31

\* a sprite of two rows, the first of eight set bits, drawn from column 60
\* of row 31: the four pixels of the columns 60..63 of row 31 change, and
\* nothing else
C7_Witness ==
    \E r \in Cycles :
        /\ r.handler = "exec_dxyn"
        /\ StartColumn(r) = 60
        /\ StartRow(r) = 31
        /\ field_n(r.inst) = 2
        /\ Changed(r) = { 31 * 64 + c : c \in 60 .. 63 }

\* C8 (as claimed): of two draws of the same sprite at the same place, one
\* after the other, the first on a cleared screen, the first leaves VF = 0,
\* the second VF = 1, and after the second every pixel is as it was before
\* the first.
DrawTwice ==
    { k \in 1 .. (Len(hist) - 1) :
        /\ hist[k].handler = "exec_dxyn"
        /\ hist[k + 1].handler = "exec_dxyn"
        /\ hist[k + 1].inst = hist[k].inst
        /\ hist[k].pre.frame = {}
        /\ hist[k].post.panicked = "none"
        /\ hist[k + 1].post.panicked = "none"
        /\ hist[k + 1].pre.frame = hist[k].post.frame
        /\ hist[k + 1].pre.index_register = hist[k].pre.index_register
        /\ StartColumn(hist[k + 1]) = StartColumn(hist[k])
        /\ StartRow(hist[k + 1]) = StartRow(hist[k]) }

C8_DrawTwiceAsClaimed ==
    \A k \in DrawTwice :
        /\ hist[k].post.var_registers[FLAG] = 0
        /\ hist[k + 1].post.var_registers[FLAG] = 1
        /\ hist[k + 1].post.frame = hist[k].pre.frame

\* C8 (amended): the first leaves VF = 0; the second leaves VF = 1 when
\* the first lit a pixel (the sprite has a set bit inside the clipped area)
\* and VF = 0 when it lit none; after the second every pixel is as it was
\* before the first.
C8_DrawTwice ==
    \A k \in DrawTwice :
        /\ hist[k].post.var_registers[FLAG] = 0
        /\ hist[k + 1].post.var_registers[FLAG] =
               (IF hist[k].post.frame # {} THEN 1 ELSE 0)
        /\ hist[k + 1].post.frame = hist[k].pre.frame

C8_Witness ==
    \E k \in DrawTwice :
        /\ Cardinality(hist[k].post.frame) = 8
        /\ hist[k].post.var_registers[FLAG] = 0
        /\ hist[k + 1].post.var_registers[FLAG] = 1
        /\ hist[k + 1].post.frame = {}

\* C9: in one iteration of the loop of run, whatever the number of cycles it
\* executes, the timer tick happens at most once and takes 1 from each of
\* the delay and sound timers that is not 0, leaving at 0 one that is; a
\* cycle leaves both timers as they are but for the write of vx to the delay
\* timer by FX15 and to the sound timer by FX18; no other step changes them.
TimerTick == timer_ticks' = timer_ticks + 1
CycleStep == cycles_left' = cycles_left - 1
Ticked(t) == IF t > 0 THEN t - 1 ELSE 0
Fetched == fetch(Machine)
Wrote(h) == /\ Fetched.emu.panicked = "none"
            /\ Dispatch(Fetched.inst) = h

C9Step ==
    /\ timer_ticks' <= 1
    /\ TimerTick =>
        /\ delay_timer' = Ticked(delay_timer)
        /\ sound_timer' = Ticked(sound_timer)
    /\ (~TimerTick /\ CycleStep) =>
        /\ delay_timer' = IF Wrote("exec_fx15")
                          THEN var_registers[field_x(Fetched.inst)]
                          ELSE delay_timer
        /\ sound_timer' = IF Wrote("exec_fx18")
                          THEN var_registers[field_x(Fetched.inst)]
                          ELSE sound_timer
    /\ (~TimerTick /\ ~CycleStep) =>
        /\ delay_timer' = delay_timer
        /\ sound_timer' = sound_timer

C9_TimersDecoupled == [][C9Step]_vars

\* an iteration that executed two cycles, the second one FX15 writing 1 to
\* the delay timer, has ticked once: the delay timer is at 0 and the sound
\* timer one below its initial value
C9_Witness ==
    /\ rpc = "sleep"
    /\ timer_ticks = 1
    /\ cycles_missing = 2
    /\ Len(hist) = 2
    /\ hist[2].handler = "exec_fx15"
    /\ hist[2].post.delay_timer = 1
    /\ delay_timer = 0
    /\ hist[2].post.sound_timer = INITIAL_TIMER
    /\ sound_timer = INITIAL_TIMER - 1

\* C10: a cycle that executes FX0A while pressed_keys is empty leaves pc at
\* that instruction and every register as it was, so that the next cycle
\* executes the same instruction again; a cycle that executes it while
\* pressed_keys is not empty leaves pc 2 further and in vx the code of a
\* key of pressed_keys.
Waits(r) == r.handler = "exec_fx0a" /\ r.pre.pressed_keys = {}
Takes(r) == r.handler = "exec_fx0a" /\ r.pre.pressed_keys # {}

C10_BlockForKey ==
    /\ \A r \in Cycles :
        /\ Waits(r) =>
            /\ r.post.pc = r.pre.pc
            /\ r.post.var_registers = r.pre.var_registers
            /\ r.post.index_register = r.pre.index_register
            /\ r.post.panicked = "none"
        /\ Takes(r) =>
            /\ r.post.pc = r.pre.pc + 2
            /\ r.post.var_registers[field_x(r.inst)] \in r.pre.pressed_keys
            /\ \A i \in Nibble \ {field_x(r.inst)} :
                   r.post.var_registers[i] = r.pre.var_registers[i]
    /\ \A k \in 1 .. (Len(hist) - 1) :
        Waits(hist[k]) =>
            /\ hist[k + 1].pre.pc = hist[k].pre.pc
            /\ hist[k + 1].inst = hist[k].inst
            /\ hist[k + 1].handler = "exec_fx0a"

C10_Witness ==
    /\ Len(hist) = 2
    /\ Waits(hist[1])
    /\ Takes(hist[2])
    /\ hist[2].pre.pc = hist[1].pre.pc
    /\ hist[2].post.pc = hist[2].pre.pc + 2
    /\ hist[2].post.var_registers[field_x(hist[2].inst)] = 5

\* C11: the code FX0A stores in vx is a function of the pressed-key set
\* alone: whatever the seed of the hasher of pressed_keys, a run in the
\* same emulator state with the same keys pressed stores the same code.
C11_KeyDeterministic ==
    \A r \in Cycles :
        Takes(r) =>
            \A seed \in HashSeeds :
                r.post.var_registers[field_x(r.inst)] = iter_next(seed, r.pre.pressed_keys)

\* C12: a store (FX55) and a later load (FX65) with the same x, from the
\* same index I with I + x inside memory and the cells stored not written
\* in between, leave v0..vx as they were before the store; each of the two
\* leaves the index register at I + x + 1 with the store and load quirk and
\* at I without it, and the registers above vx as they were.
BulkOps == { r \in Cycles : /\ r.handler \in {"exec_fx55", "exec_fx65"}
                            /\ r.pre.index_register + field_x(r.inst) < RAM_SIZE }
StoreThenLoad ==
    { p \in (1 .. Len(hist)) \X (1 .. Len(hist)) :
        /\ p[1] < p[2]
        /\ hist[p[1]] \in BulkOps /\ hist[p[1]].handler = "exec_fx55"
        /\ hist[p[2]] \in BulkOps /\ hist[p[2]].handler = "exec_fx65"
        /\ field_x(hist[p[2]].inst) = field_x(hist[p[1]].inst)
        /\ hist[p[2]].pre.index_register = hist[p[1]].pre.index_register
        /\ hist[p[2]].pre.memory = hist[p[1]].post.memory }

C12_StoreLoadRoundTrip ==
    /\ \A r \in BulkOps :
        /\ r.post.panicked = "none"
        /\ r.post.index_register =
               IF op_store_and_load_original
               THEN r.pre.index_register + field_x(r.inst) + 1
               ELSE r.pre.index_register
        /\ \A i \in Nibble :
               i > field_x(r.inst) => r.post.var_registers[i] = r.pre.var_registers[i]
        /\ r.handler = "exec_fx55" => r.post.var_registers = r.pre.var_registers
    /\ \A p \in StoreThenLoad :
        \A i \in 0 .. field_x(hist[p[1]].inst) :
            hist[p[2]].post.var_registers[i] = hist[p[1]].pre.var_registers[i]

\* v0, v1 stored at the last two bytes of memory with the quirk, v1
\* overwritten, and both loaded again
C12_Witness ==
    \E p \in StoreThenLoad :
        /\ op_store_and_load_original
        /\ field_x(hist[p[1]].inst) = 1
        /\ hist[p[1]].pre.index_register = RAM_SIZE - 2
        /\ hist[p[1]].pre.var_registers[0] = 255
        /\ hist[p[1]].pre.var_registers[1] = 254
        /\ hist[p[2]].pre.var_registers[1] = 170
        /\ hist[p[2]].post.var_registers[0] = 255
        /\ hist[p[2]].post.var_registers[1] = 254
        /\ hist[p[2]].post.index_register = RAM_SIZE

\* C13: FX33 with the index I and I + 2 inside memory leaves vx div 100 at
\* I, (vx div 10) mod 10 at I + 1 and vx mod 10 at I + 2, and every other
\* memory cell, every register and the index register as they were.
Decimals == { r \in Cycles : /\ r.handler = "exec_fx33"
                             /\ r.pre.index_register + 2 < RAM_SIZE }
Written(r) == (DOMAIN r.pre.memory) \cup (DOMAIN r.post.memory)

C13_DecimalDecompose ==
    \A r \in Decimals :
        LET I == r.pre.index_register
            v == Vx(r)
        IN  /\ r.post.panicked = "none"
            /\ Mem(r.post, I) = v \div 100
            /\ Mem(r.post, I + 1) = (v \div 10) % 10
            /\ Mem(r.post, I + 2) = v % 10
            /\ \A a \in Written(r) \ {I, I + 1, I + 2} : Mem(r.post, a) = Mem(r.pre, a)
            /\ r.post.var_registers = r.pre.var_registers
            /\ r.post.index_register = I

\* 205 to the last three bytes of memory
C13_Witness ==
    \E r \in Decimals :
        /\ Vx(r) = 205
        /\ r.pre.index_register = RAM_SIZE - 3
        /\ Mem(r.post, RAM_SIZE - 3) = 2
        /\ Mem(r.post, RAM_SIZE - 2) = 0
        /\ Mem(r.post, RAM_SIZE - 1) = 5

\* C14: an access beyond the 4096 bytes of memory ends the step in an
\* explicit error (a panic of the emulation thread), and no address is
\* computed by wrapping around: a fetch with pc or pc + 1 beyond memory
\* fails; a draw, a decimal decompose, a bulk store or load with one of
\* its addresses (index + row, index + 0..2, index + 0..x) beyond memory
\* fails; FX1E and the index advance of FX55 / FX65 leave the index
\* register at the sum itself when they do not fail, as BNNN leaves pc;
\* and a cell that is written is one of those the instruction addresses.
ExplicitError == {"memory_index_out_of_bounds", "overflow"}

\* the rows of the sprite a draw reads: those above the bottom edge
RowsRead(r) ==
    { i \in 0 .. (field_n(r.inst) - 1) : (Vy(r) % 32) + i < DISPLAY_HEIGHT }

\* the offsets from the index register at which the instruction of r
\* reads or writes memory
Offsets(r) ==
    CASE r.handler = "exec_dxyn" -> RowsRead(r)
      [] r.handler = "exec_fx33" -> 0 .. 2
      [] r.handler \in {"exec_fx55", "exec_fx65"} -> 0 .. field_x(r.inst)
      [] OTHER -> {}

Addressed(r) == { r.pre.index_register + i : i \in Offsets(r) }

BeyondMemory(r) == \E a \in Addressed(r) : a >= RAM_SIZE

NoWrap(r) ==
    r.post.panicked = "none" =>
        /\ r.handler = "exec_fx1e" =>
               r.post.index_register = r.pre.index_register + Vx(r)
        /\ (r.handler \in {"exec_fx55", "exec_fx65"} /\ op_store_and_load_original) =>
               r.post.index_register = r.pre.index_register + field_x(r.inst) + 1
        /\ r.handler = "exec_bnnn" =>
               r.post.pc = field_nnn(r.inst) + Vx(r)

FetchBeyondMemory ==
    (CycleStep /\ pc + 1 >= RAM_SIZE) =>
        /\ panicked' \in ExplicitError
        /\ memory' = memory

C14_OutOfBoundsIsAnError ==
    /\ [](\A r \in Cycles :
            /\ BeyondMemory(r) => r.post.panicked \in ExplicitError
            /\ NoWrap(r)
            /\ \A a \in Written(r) :
                   Mem(r.post, a) # Mem(r.pre, a) => (a \in Addressed(r) /\ a < RAM_SIZE))
    /\ [][FetchBeyondMemory]_vars

\* C20: FX29 leaves the index register at the font table base 0x50 plus 5
\* times vx, for every value of vx from 0 to 255, without overflow or
\* truncation; for vx from 0 to 15 the byte there is the first byte of
\* the glyph of the digit vx.
C20_FontAddress ==
    \A r \in Cycles :
        r.handler = "exec_fx29" =>
            /\ r.post.panicked = "none"
            /\ r.post.index_register = FONT_PC + 5 * Vx(r)
            /\ Vx(r) <= 15 => Mem(r.post, r.post.index_register) = FONT[5 * Vx(r) + 1]

\* C15: at the end of every iteration of the loop of run the tone is
\* playing (the looped source is in the sink and the sink is not paused)
\* exactly when the sound timer is not 0; the iteration whose tick takes
\* the sound timer to 0 ends with the tone paused.
IterationDone == rpc = "sleep" /\ timer_ticks = 1 /\ panicked = "none"
TonePlaying == audio_sink_initialized /\ ~sink_paused

C15_AudioGate == IterationDone => (TonePlaying <=> sound_timer > 0)

\* C16: an iteration of the loop of run presents the frame once when one
\* or more of the instructions of its burst asked for a redraw (00E0 or
\* DXYN) and not at all otherwise, and should_draw is FALSE at its end.
BurstCycles ==
    { hist[k] : k \in (Len(hist) - cycles_missing + 1) .. Len(hist) }
Redraws == { r \in BurstCycles : r.handler \in {"exec_00e0", "exec_dxyn"} }

C16_RedrawCoalesced ==
    /\ presents <= 1
    /\ IterationDone =>
        /\ presents = (IF Redraws # {} THEN 1 ELSE 0)
        /\ should_draw = FALSE

\* a burst of a clear and a draw, presented once
C16_Witness ==
    /\ IterationDone
    /\ cycles_missing = 2
    /\ Cardinality(Redraws) = 2
    /\ presents = 1

\* C17: key events are consumed in the order of their sending, one per
\* iteration of the loop of run that finds the channel non-empty and none
\* by an iteration that finds it empty: the events taken are a prefix of
\* the events sent, of at most as many events as iterations have begun,
\* the channel holds the rest in order, pressed_keys is the result of
\* applying the presses and releases of the mapped keys of that prefix in
\* order (an event of an unmapped key is taken and changes nothing) and
\* holds only codes 0x0..0xF; every step that begins an iteration with a
\* non-empty channel takes exactly its head, no other step takes anything.
RECURSIVE ApplyEvents(_, _)
ApplyEvents(events, pressed) ==
    IF events = <<>> THEN pressed
    ELSE LET e == Head(events)
             after == IF e.physical_key \notin DOMAIN KeyMap THEN pressed
                      ELSE IF e.state = "Pressed"
                           THEN pressed \cup {KeyMap[e.physical_key]}
                           ELSE pressed \ {KeyMap[e.physical_key]}
         IN  ApplyEvents(Tail(events), after)

Consumed == Len(sent) - Len(key_queue)
Least(a, b) == IF a <= b THEN a ELSE b

FifoPrefix ==
    /\ Consumed \in 0 .. Least(iterations, Len(sent))
    /\ key_queue = SubSeq(sent, Consumed + 1, Len(sent))
    /\ pressed_keys = ApplyEvents(SubSeq(sent, 1, Consumed), {})
    /\ pressed_keys \subseteq 0 .. 15

OnePerIteration ==
    /\ (iterations' = iterations + 1 /\ key_queue # <<>>) =>
            /\ key_queue' = Tail(key_queue)
            /\ sent' = sent
    /\ (iterations' = iterations + 1 /\ key_queue = <<>>) =>
            /\ key_queue' = <<>>
            /\ pressed_keys' = pressed_keys
    /\ iterations' = iterations =>
            /\ pressed_keys' = pressed_keys
            /\ \/ key_queue' = key_queue /\ sent' = sent
               \/ \E e \in KeyEvents :
                    /\ key_queue' = Append(key_queue, e)
                    /\ sent' = Append(sent, e)

LockScoped ==
    /\ lock = "emulator" <=> rpc \in {"draw", "render"}
    /\ lock = "window" <=> wpc = "rendering"
    /\ rpc \in {"sleep", "burst", "render_lock"} => lock # "emulator"

C18_LockGranted == [](LockScoped) /\ (wpc = "locking" ~> wpc = "rendering")

\* C19: a failure at the boundary of a device does not halt the loop of
\* run.  When the present of render fails, and when the looping tone
\* cannot be set up the first time the sound timer is not 0, the thread
\* does not panic: the iteration goes on, the timers tick as they would
\* have, and pc, the registers and memory are as they were.
CpuUntouched ==
    UNCHANGED << pc, var_registers, index_register, stack, memory >>

PresentFails == rpc = "render" /\ rpc' # rpc /\ present_failed'
ToneSetupFails ==
    /\ rpc = "burst" /\ cycles_left = 0 /\ panicked = "none"
    /\ ~ UNCHANGED << rpc, panicked >>
    /\ sound_timer > 0 /\ ~audio_sink_initialized /\ ~decode_ok

LoopGoesOn ==
    /\ PresentFails =>
            /\ panicked' = "none" /\ rpc' = "sleep"
            /\ CpuUntouched /\ UNCHANGED << delay_timer, sound_timer >>
    /\ ToneSetupFails =>
            /\ panicked' = "none" /\ rpc' \in {"sleep", "render_lock"}
            /\ CpuUntouched
            /\ sound_timer' = sound_timer - 1
            /\ delay_timer' = update_delay_timer(delay_timer)

C19_FailureOnlyLogged == [][LoopGoesOn]_vars

\* C21: the pacing of instructions follows the wall time elapsed: an
\* iteration of the loop of run executes the cycles that (time elapsed
\* since cycle_start x cycle_rate) exceeds the cycles already executed by,
\* a number that is never negative, so that after an iteration that begins
\* k sixtieths of a second after the start the cycles executed are
\* cycle_rate * k / 60 rounded down.
C21_PacedByWallTime ==
    /\ cycles_missing >= 0
    /\ (rpc \in {"sleep", "render_lock", "render"} /\ panicked = "none" /\ iterations > 0) =>
            cycles_completed = (cycle_rate * now) \div TARGET_FPS

\* C22: the font table is read-only: in every state reached from the
\* emulator as new and load_rom leave it, whatever the program executes
\* (FX33 and FX55 with the index register inside 0x50..0x9F included),
\* memory[0x50..0x9F] holds the 80 bytes load_fonts put there.
FontAddresses == FONT_PC .. (FONT_PC + Len(FONT) - 1)

C22_FontReadOnly ==
    \A a \in FontAddresses : Mem(Machine, a) = FONT[a - FONT_PC + 1]

\* C23: call and return are last in, first out.  2NNN pushes the address of
\* the instruction after the call (the pc the fetch has advanced) and sets
\* pc to nnn; 00EE on a stack that is not empty sets pc to the address
\* pushed last and not yet popped, and takes it off; no other instruction
\* changes the stack.  So the depth of the stack is the calls minus the
\* returns, and a return resumes at the instruction after its matching
\* call, at any depth of nesting.
IsCall(r) == r.handler = "exec_2nnn"
IsReturn(r) == r.handler = "exec_00ee" /\ r.pre.stack # <<>>
CallsIn(h) == Cardinality({ k \in 1 .. Len(h) : IsCall(h[k]) })
ReturnsIn(h) == Cardinality({ k \in 1 .. Len(h) : IsReturn(h[k]) })

\* the call at j is the one the return at k returns from: the stack is as
\* deep after the return as before the call, and deeper in between
Matching(j, k) ==
    /\ j < k
    /\ IsCall(hist[j])
    /\ Len(hist[j].pre.stack) = Len(hist[k].post.stack)
    /\ \A i \in (j + 1) .. k : Len(hist[i].pre.stack) > Len(hist[j].pre.stack)

C23_CallReturnLifo ==
    /\ \A k \in 1 .. Len(hist) :
        LET r == hist[k]
        IN  /\ IsCall(r) =>
                /\ r.post.stack = Append(r.pre.stack, r.pre.pc + 2)
                /\ r.post.pc = field_nnn(r.inst)
            /\ IsReturn(r) =>
                /\ r.post.panicked = "none"
                /\ r.post.pc = r.pre.stack[Len(r.pre.stack)]
                /\ r.post.stack = SubSeq(r.pre.stack, 1, Len(r.pre.stack) - 1)
                /\ \A j \in 1 .. Len(hist) :
                       Matching(j, k) => r.post.pc = hist[j].pre.pc + 2
            /\ (~IsCall(r) /\ ~IsReturn(r)) => r.post.stack = r.pre.stack
    /\ hist # <<>> =>
        Len(stack) = Len(hist[1].pre.stack) + CallsIn(hist) - ReturnsIn(hist)

\* NestDepth calls, each from inside the one before, then as many returns:
\* the last return resumes after the first call
C23_Witness ==
    /\ Len(hist) = 2 * NestDepth
    /\ \A k \in 1 .. NestDepth : IsCall(hist[k])
    /\ \A k \in (NestDepth + 1) .. (2 * NestDepth) : IsReturn(hist[k])
    /\ hist[NestDepth].post.stack = [i \in 1 .. NestDepth |-> Block(i - 1) + 2]
    /\ Matching(1, 2 * NestDepth)
    /\ pc = Block(0) + 2
    /\ stack = <<>>

\* C24: a return on the empty stack is a fatal halt, always.  The cycle
\* that executes 00EE with nothing on the stack ends the emulation thread
\* in an error; the return changes neither pc (which the fetch had
\* advanced) nor a register, the index register, memory or a timer; and
\* from then on no instruction is fetched or executed, no timer ticks and
\* no iteration of the loop of run begins.
Underflow(r) == r.handler = "exec_00ee" /\ r.pre.stack = <<>>
Halted == panicked = "unwrap_none"

CpuState(s) ==
    << s.pc, s.var_registers, s.index_register, s.stack, s.memory, s.delay_timer,
       s.sound_timer >>

HaltedAtReturn ==
    /\ \A k \in 1 .. Len(hist) :
        Underflow(hist[k]) =>
            /\ k = Len(hist)
            /\ Halted
            /\ hist[k].post.panicked = "unwrap_none"
            /\ CpuState(hist[k].post) = CpuState([hist[k].pre EXCEPT !.pc = @ + 2])
            /\ CpuState(Machine) = CpuState(hist[k].post)
    /\ Halted => (hist # <<>> /\ Underflow(hist[Len(hist)]))

NothingRuns ==
    Halted => UNCHANGED << pc, var_registers, index_register, stack, memory, delay_timer,
                           sound_timer, frame, should_draw, hist, cycles_left,
                           cycles_completed, timer_ticks, iterations, presents, rpc >>

C24_UnderflowHalts == [](HaltedAtReturn) /\ [][NothingRuns]_vars

\* halted with a cycle of the burst still to run: the instruction behind
\* the return has not been executed
C24_Witness ==
    /\ Halted
    /\ cycles_left > 0
    /\ pc = PC_START + 2
    /\ var_registers[0] = 0

\* C25: an instruction word that matches no arm is not fatal and does
\* nothing beyond the fetch: after the cycle pc is 2 greater than before,
\* everything else (registers, index register, stack, memory, timers,
\* pressed keys, display, should_draw) is as it was, the thread has not
\* failed, and the next cycle fetches the word at the advanced pc.
WordAt(s, a) == Mem(s, a) * 256 + Mem(s, a + 1)

C25_UnknownIsSkipped ==
    \A k \in 1 .. Len(hist) :
        hist[k].handler = "unknown" =>
            /\ hist[k].post = [hist[k].pre EXCEPT !.pc = @ + 2]
            /\ hist[k].post.panicked = "none"
            /\ k < Len(hist) =>
                /\ hist[k + 1].pre = hist[k].post
                /\ hist[k + 1].inst = WordAt(hist[k].post, hist[k].pre.pc + 2)

\* the word 0xF00B between v1 := 5 and v1 += 1: both are executed
C25_Witness ==
    /\ Len(hist) = 3
    /\ hist[2].inst = 61451
    /\ hist[2].handler = "unknown"
    /\ hist[3].handler = "exec_7xnn"
    /\ hist[3].pre.pc = hist[2].pre.pc + 2
    /\ var_registers[1] = 6

\* C26: the jump with offset BNNN follows its quirk: with
\* op_jump_with_offset_original set pc becomes nnn + v0, without it pc
\* becomes nnn + vx, x the top nibble of nnn; the sum is not truncated (it
\* may exceed 0xFFF), and neither a register nor anything else but pc
\* changes.
Offset(r) ==
    IF op_jump_with_offset_original THEN r.pre.var_registers[0] ELSE Vx(r)

C26_JumpWithOffset ==
    \A r \in Cycles :
        r.handler = "exec_bnnn" =>
            /\ r.post = [r.pre EXCEPT !.pc = field_nnn(r.inst) + Offset(r)]
            /\ r.post.panicked = "none"

\* BFFF with v0 = 1 and vf = 255, the quirk not set: pc = 0xFFF + 255
C26_Witness ==
    /\ ~op_jump_with_offset_original
    /\ Len(hist) = 3
    /\ hist[3].inst = 49151
    /\ hist[3].pre.var_registers[0] = 1
    /\ hist[3].pre.var_registers[FLAG] = 255
    /\ pc = 4350

\* C27: a failure of the emulation thread while it holds the mutex of the
\* pixel buffer does not disable the window thread: after a draw (DXYN)
\* that failed part-way with the guard held, every redraw of the window
\* thread still gets the mutex and presents; none fails.
DrawFailed ==
    /\ hist # <<>>
    /\ hist[Len(hist)].handler = "exec_dxyn"
    /\ hist[Len(hist)].post.panicked # "none"

C27_WindowSurvivesDrawFailure == DrawFailed => ~window_panicked

\* C28: no tone before the program asks for one: an iteration of the loop
\* of run that ends before any instruction has been executed (so before any
\* FX18 or FX15) has not told the sink to play, and both timers read 0.
NothingExecuted == hist = <<>>

C28_NoToneUnasked ==
    (NothingExecuted /\ IterationDone) =>
        (~TonePlaying /\ sound_timer = 0 /\ delay_timer = 0)

====
